---- MODULE Spec2Model ----
(***************************************************************************)
(* A model of the ACME v2 client of swerveaux/acmev2: NewClient, the       *)
(* FetchOrRenewCert flow and makeRequest (src/cmd/client/main.go, the      *)
(* latest revision, lines 464-611), newAccount (lines 888-899) and the     *)
(* driver loop (src/unnamed/part_000).  The ACME server, the transport,    *)
(* the DNS collaborator and the store collaborator are the environment:    *)
(* their answers are drawn from small sets.                                *)
(* Spec is the sequential driver; SpecConc has two goroutines call one     *)
(* Client, SpecHash calls AcmeAuthHash on Clients in varying session       *)
(* states, SpecStore calls the ASMCertStore (src/secrets.go), SpecDNS the  *)
(* Route53 (src/route53.go).                                               *)
(***************************************************************************)
EXTENDS Naturals, Sequences, FiniteSets

VARIABLES
    pc,        \* position of the driver / of FetchOrRenewCert
    c,         \* the Client value (Nonce, KID, Key, Directory, OrderURL, Finalize)
    opts,      \* NewClient's local copy of ClientOpts
    srvNonce,  \* how many nonces the server issued since this call began
    srvOrder,  \* the server's status of the order of this call
    ctxDone,   \* the context passed to FetchOrRenewCert has been canceled
    run,       \* the locals of the current FetchOrRenewCert call
    runs,      \* number of FetchOrRenewCert calls started
    ret,       \* what the last FetchOrRenewCert call returned: "none", "nil", "err"
    reqs,      \* history: the envelopes handed to http.DefaultClient.Do since this call began
    refused,   \* history: signed operations that failed before any envelope was built
    dnsCalls,  \* history: this call's calls of the DNS collaborator
    stored,    \* history: this call's calls of the store collaborator's Store
    kidFrom,   \* history: the operation whose response set c.KID
    kidLog,    \* history: c.KID after each completed newAccount
    g,         \* the goroutines that call the Client concurrently
    asm,       \* the secrets the Secrets Manager holds: name -> value
    calls,     \* history: the calls made on AcmeAuthHash, the ASMCertStore, the Route53
    zone       \* the record sets of the Route 53 hosted zones

vars == <<pc, c, opts, srvNonce, srvOrder, ctxDone, run, runs, ret,
          reqs, refused, dnsCalls, stored, kidFrom, kidLog, g, asm, calls,
          zone>>

\* The state of the concurrent callers and of the certificate store.
aux == <<g, asm, calls, zone>>

\* ---------------------------------------------------------------- bounds

MaxRuns == 2
MaxPolls == 2
MaxDirect == 1

\* ------------------------------------------------------------- constants

Nil == "nil"
NoNonce == <<>>
GeneratedKey == "generated"
AccountKeys == {Nil, "k1"}
Domains == {"", "example.org"}
Directory == [NewNonce |-> "newNonce", NewAccount |-> "newAccount", NewOrder |-> "newOrder"]
ZeroDirectory == [NewNonce |-> "", NewAccount |-> "", NewOrder |-> ""]
AcctURL == "acct/1"
OrderLocation == "order/1"
AuthzURL == "authz/1"
FinalizeURL == "finalize/1"
CertURL == "cert/1"
ChallengeURL == "chall/1"
Token == "abc123"

\* The zero value of the Client struct.
ZeroClient ==
    [Nonce |-> NoNonce, KID |-> "", Key |-> Nil, Directory |-> ZeroDirectory,
     OrderURL |-> "", Finalize |-> ""]

\* The zero value of a Challenge, and the dns-01 challenge the server offers.
ZeroChallenge == [Type |-> "", Token |-> "", URL |-> ""]
Dns01 == [Type |-> "dns-01", Token |-> Token, URL |-> ChallengeURL]
Http01 == [Type |-> "http-01", Token |-> Token, URL |-> "chall/http"]
Offers == {<<Http01, Dns01>>, <<Http01>>}

\* What the transport hands back for one request: a failure of Do or of the body
\* read, or a response: 2xx or a problem document, with or without Replay-Nonce.
Responses ==
    {[fail |-> TRUE, ok |-> FALSE, nonce |-> FALSE]}
    \cup {[fail |-> FALSE, ok |-> o, nonce |-> n] : o \in BOOLEAN, n \in BOOLEAN}

\* The Location header of the server's response: the account URL on a 2xx
\* new-account response, the order URL on a 2xx new-order response, none otherwise.
Location(url, r) ==
    IF r.ok /\ url = Directory.NewAccount THEN AcctURL
    ELSE IF r.ok /\ url = Directory.NewOrder THEN OrderLocation
    ELSE ""

\* -------------------------------------------------------- pure functions

\* JWKThumbprint: the RFC 7638 thumbprint of the key.
JWKThumbprint(key) == <<"sha256", <<"jwk", key>>>>

\* acmeAuthString: token "." base64url(thumbprint).
acmeAuthString(key, token) == <<token, ".", <<"b64", JWKThumbprint(key)>>>>

\* A hash that also takes in the nonce the Client holds.
AcmeAuthHashOfNonce(key, token) ==
    <<"b64", <<"sha256", acmeAuthString(key, token), c.Nonce>>>>

\* AcmeAuthHash: base64url(SHA-256(acmeAuthString)).
AcmeAuthHash(key, token) == <<"b64", <<"sha256", acmeAuthString(key, token)>>>>

\* JWSEncodeJSON without the check that a nonce is held.
JWSEncodeJSONAnyNonce(cl, url) ==
    IF cl.Key = Nil THEN [err |-> "KeyError", nonce |-> NoNonce, url |-> url, kid |-> ""]
    ELSE [err |-> "", nonce |-> cl.Nonce, url |-> url,
          kid |-> IF cl.KID = "" THEN "jwk" ELSE cl.KID]

\* JWSEncodeJSON: the signed envelope for url, built from the held nonce and
\* from the Key ID (or the embedded key while there is none).
JWSEncodeJSON(cl, url) ==
    IF cl.Key = Nil THEN [err |-> "KeyError", nonce |-> NoNonce, url |-> url, kid |-> ""]
    ELSE IF cl.Nonce = NoNonce
    THEN [err |-> "NoNonceError", nonce |-> NoNonce, url |-> url, kid |-> ""]
    ELSE [err |-> "", nonce |-> cl.Nonce, url |-> url,
          kid |-> IF cl.KID = "" THEN "jwk" ELSE cl.KID]

\* The error a signed operation reports for the result res of its makeRequest
\* call and the response r: the transport or signing error, or the problem
\* document of a non-2xx response.
OpErr(res, r, problem) ==
    IF res.err # "" THEN res.err ELSE IF ~r.ok THEN problem ELSE ""

\* makeRequest taking Location from every response, the guard on c.KID left out.
makeRequestAnyKID(cl, url, r, fresh) ==
    LET token == JWSEncodeJSON(cl, url) IN
    IF token.err # ""
    THEN [c |-> cl, err |-> token.err, sent |-> <<>>]
    ELSE IF url = "" \/ r.fail
    THEN [c |-> cl, err |-> "TransportError", sent |-> <<token>>]
    ELSE [c |-> [cl EXCEPT !.Nonce = IF r.nonce THEN fresh ELSE NoNonce,
                            !.KID = Location(url, r)],
          err |-> "", sent |-> <<token>>]

\* makeRequest: sign, POST, and on a response take Replay-Nonce and, while the
\* Client has no KID, Location.  fresh is the nonce the server issues.
makeRequest(cl, url, r, fresh) ==
    LET token == JWSEncodeJSON(cl, url) IN
    IF token.err # ""
    THEN [c |-> cl, err |-> token.err, sent |-> <<>>]
    ELSE IF url = "" \/ r.fail
    THEN [c |-> cl, err |-> "TransportError", sent |-> <<token>>]
    ELSE [c |-> [cl EXCEPT !.Nonce = IF r.nonce THEN fresh ELSE NoNonce,
                            !.KID = IF cl.KID = "" THEN Location(url, r) ELSE cl.KID],
          err |-> "", sent |-> <<token>>]

\* CertApply(domains): POST a new-order request; the Order with its
\* authorization URLs, its finalize URL and its own URL.
CertApply(cl, r, fresh) ==
    LET res == makeRequest(cl, cl.Directory.NewOrder, r, fresh)
        err == OpErr(res, r, "OrderError")
    IN  [c |-> IF err = "" THEN [res.c EXCEPT !.OrderURL = OrderLocation,
                                              !.Finalize = FinalizeURL]
               ELSE res.c,
         err |-> err, sent |-> res.sent,
         Authorizations |-> IF err = "" THEN <<AuthzURL>> ELSE <<>>]

\* FetchChallenges(authorizationURL): POST-as-GET of one authorization; the
\* challenges it offers.
FetchChallenges(cl, url, r, fresh, offer) ==
    LET res == makeRequest(cl, url, r, fresh)
        err == OpErr(res, r, "ProblemError")
    IN  [c |-> res.c, err |-> err, sent |-> res.sent,
         Challenges |-> IF err = "" THEN offer ELSE <<>>]

\* ChallengeReady(challengeURL): POST {} to the challenge URL.
ChallengeReady(cl, url, r, fresh) ==
    LET res == makeRequest(cl, url, r, fresh)
    IN  [c |-> res.c, err |-> OpErr(res, r, "ProblemError"), sent |-> res.sent]

\* newAccount(contactEmails): POST the new-account payload; the error of
\* makeRequest is the only error it returns.
newAccount(cl, r, fresh) ==
    LET res == makeRequest(cl, cl.Directory.NewAccount, r, fresh)
    IN  [c |-> res.c, err |-> res.err, sent |-> res.sent]

\* The loop of FetchOrRenewCert that selects the first dns-01 challenge; the
\* zero Challenge when none is offered.
RECURSIVE SelectChallenge(_)
SelectChallenge(challenges) ==
    IF challenges = <<>> THEN ZeroChallenge
    ELSE IF Head(challenges).Type = "dns-01" THEN Head(challenges)
    ELSE SelectChallenge(Tail(challenges))

\* The statuses the server may report for an order whose status was s.
NextStatus(s) ==
    CASE s = "pending" -> {"pending", "ready", "invalid"}
      [] s = "ready" -> {"ready"}
      [] s = "processing" -> {"processing", "valid", "invalid"}
      [] s = "valid" -> {"valid"}
      [] s = "invalid" -> {"invalid"}
      [] OTHER -> {"invalid"}

\* ------------------------------------------------------------- the state

ZeroRun ==
    [domain |-> "", via |-> "none", challenge |-> ZeroChallenge, offered |-> "none",
     authHash |-> <<>>, deferred |-> FALSE, err |-> "", polls |-> 0,
     observed |-> {}, finalized |-> FALSE, acct |-> "none"]

Init ==
    /\ pc = "new"
    /\ c = ZeroClient
    /\ opts = [AccountKey |-> Nil]
    /\ srvNonce = 0
    /\ srvOrder = "none"
    /\ ctxDone = FALSE
    /\ run = ZeroRun
    /\ runs = 0
    /\ ret = "none"
    /\ reqs = <<>>
    /\ refused = <<>>
    /\ dnsCalls = <<>>
    /\ stored = <<>>
    /\ kidFrom = ""
    /\ kidLog = <<>>
    /\ g = <<>>
    /\ asm = <<>>
    /\ calls = <<>>
    /\ zone = {}

\* The nonce the server issues next: one it never issued before.
Fresh == <<runs, srvNonce + 1>>

\* The direct calls of exported signed operations since the last call of
\* FetchOrRenewCert began.
Directs ==
    Cardinality({i \in DOMAIN reqs : reqs[i].via = "direct"})
    + Cardinality({i \in DOMAIN refused : refused[i].via = "direct"})

\* The history of one makeRequest call res made by operation op.
Record(op, via, res) ==
    /\ reqs' = reqs \o [i \in 1..Len(res.sent) |->
                          [op |-> op, url |-> res.sent[i].url, nonce |-> res.sent[i].nonce,
                           kid |-> res.sent[i].kid, run |-> runs, via |-> via,
                           canceled |-> ctxDone]]
    /\ refused' = IF res.sent = <<>> THEN Append(refused, [op |-> op, err |-> res.err,
                                                           nonce |-> c.Nonce, via |-> via])
                  ELSE refused
    /\ srvNonce' = IF res.c.Nonce = Fresh THEN srvNonce + 1 ELSE srvNonce
    /\ kidFrom' = IF c.KID = "" /\ res.c.KID # "" THEN op ELSE kidFrom

\* NewClient(dirURL, csr, dm, opts): the driver ends the process when it fails.
NewClient(accountKey, dirOK) ==
    /\ pc = "new"
    /\ IF ~dirOK
       THEN /\ c' = [ZeroClient EXCEPT !.Key = accountKey]
            /\ opts' = [AccountKey |-> accountKey]
            /\ pc' = "exited"
       ELSE /\ c' = [ZeroClient EXCEPT !.Key = accountKey, !.Directory = Directory]
            /\ opts' = [AccountKey |-> IF accountKey = Nil THEN GeneratedKey ELSE accountKey]
            /\ pc' = "idle"
    /\ UNCHANGED <<srvNonce, srvOrder, ctxDone, run, runs, ret, reqs, refused,
                   dnsCalls, stored, kidFrom, kidLog>>
    /\ UNCHANGED aux

\* A return that skips the deferred function.
ReturnNoDefer(r1, e) ==
    /\ pc' = "idle"
    /\ run' = [r1 EXCEPT !.err = e]
    /\ ret' = IF e = "" THEN "nil" ELSE "err"

\* A return that drops the error.
ReturnNil(r1, e) ==
    IF r1.deferred
    THEN /\ pc' = "defer"
         /\ run' = [r1 EXCEPT !.err = ""]
         /\ ret' = ret
    ELSE /\ pc' = "idle"
         /\ run' = [r1 EXCEPT !.err = ""]
         /\ ret' = "nil"

\* A return of FetchOrRenewCert with error e ("" for nil) and locals r1: the
\* deferred function, once registered, runs before the caller sees the result.
Return(r1, e) ==
    IF r1.deferred
    THEN /\ pc' = "defer"
         /\ run' = [r1 EXCEPT !.err = e]
         /\ ret' = ret
    ELSE /\ pc' = "idle"
         /\ run' = [r1 EXCEPT !.err = e]
         /\ ret' = IF e = "" THEN "nil" ELSE "err"

\* FetchOrRenewCert, from its call to the fetch of the initial nonce.
FetchOrRenewCert(domain, nonceOK) ==
    /\ pc = "idle"
    /\ runs < MaxRuns
    /\ runs' = runs + 1
    /\ ctxDone' = FALSE
    /\ IF domain = "" \/ ~nonceOK
       THEN /\ pc' = "idle"
            /\ ret' = "err"
            /\ run' = [ZeroRun EXCEPT !.domain = domain, !.via = "run",
                                      !.err = IF domain = "" THEN "no domain passed in"
                                              ELSE "TransportError"]
            /\ srvNonce' = 0
            /\ c' = c
       ELSE /\ pc' = "newAccount"
            /\ ret' = "none"
            /\ run' = [ZeroRun EXCEPT !.domain = domain, !.via = "run"]
            /\ c' = [c EXCEPT !.Nonce = <<runs', 1>>]
            /\ srvNonce' = 1
    /\ srvOrder' = "none"
    /\ reqs' = <<>>
    /\ refused' = <<>>
    /\ dnsCalls' = <<>>
    /\ stored' = <<>>
    /\ UNCHANGED <<opts, kidFrom, kidLog>>
    /\ UNCHANGED aux

\* err = c.newAccount(ctx, c.ContactEmails)
StepNewAccount(r) ==
    /\ pc = "newAccount"
    /\ LET res == newAccount(c, r, Fresh) IN
        /\ c' = res.c
        /\ Record("newAccount", "run", res)
        /\ kidLog' = Append(kidLog, res.c.KID)
        /\ LET r1 == [run EXCEPT !.acct = IF res.sent = <<>> THEN "refused"
                                           ELSE IF res.err # "" THEN "transport"
                                           ELSE IF r.ok THEN "created" ELSE "problem"]
           IN  IF res.err # "" THEN Return(r1, res.err)
               ELSE pc' = "certApply" /\ run' = r1 /\ ret' = ret
    /\ UNCHANGED <<opts, srvOrder, ctxDone, runs, dnsCalls, stored>>
    /\ UNCHANGED aux

\* certApply, err := c.CertApply(ctx, []string{domain})
StepCertApply(r) ==
    /\ pc = "certApply"
    /\ LET res == CertApply(c, r, Fresh) IN
        /\ c' = res.c
        /\ Record("CertApply", "run", res)
        /\ IF res.err # ""
           THEN Return(run, res.err) /\ UNCHANGED srvOrder
           ELSE pc' = "fetchChallenges" /\ srvOrder' = "pending" /\ UNCHANGED <<run, ret>>
    /\ UNCHANGED <<opts, ctxDone, runs, dnsCalls, stored, kidLog>>
    /\ UNCHANGED aux

\* challengeResponse, err := c.FetchChallenges(ctx, certApply.Authorizations[0])
\* and the selection of the dns-01 challenge; err is overwritten unread.
StepFetchChallenges(r, offer) ==
    /\ pc = "fetchChallenges"
    /\ LET res == FetchChallenges(c, AuthzURL, r, Fresh, offer) IN
        /\ c' = res.c
        /\ Record("FetchChallenges", "run", res)
        /\ run' = [run EXCEPT !.challenge = SelectChallenge(res.Challenges),
                              !.offered = IF res.err # "" THEN "error"
                                          ELSE IF \E i \in 1..Len(res.Challenges) :
                                                    res.Challenges[i].Type = "dns-01"
                                          THEN "dns-01" ELSE "other"]
        /\ pc' = "addText"
    /\ UNCHANGED <<opts, srvOrder, ctxDone, runs, ret, dnsCalls, stored, kidLog>>
    /\ UNCHANGED aux

\* FetchOrRenewCert going on to the wait whatever AddTextRecord returned.
AfterAddGoOn(ok) == "wait"

\* FetchOrRenewCert skipping the challenge but still polling after a failed add.
AfterAddPoll(ok) == IF ok THEN "wait" ELSE "poll"

\* Where FetchOrRenewCert goes after AddTextRecord returned:
\* if err != nil { log.Fatal(err) } ends the process, else the wait follows.
AfterAdd(ok) == IF ok THEN "wait" ELSE "exited"

\* authHash, err := c.AcmeAuthHash(challenge.Token); c.DNS.AddTextRecord(domain,
\* authHash); log.Fatal on either error; the registration of the deferred removal.
StepAddTextRecord(ok) ==
    /\ pc = "addText"
    /\ IF c.Key = Nil
       THEN pc' = "exited" /\ UNCHANGED <<run, dnsCalls>>
       ELSE LET authHash == AcmeAuthHash(c.Key, run.challenge.Token) IN
            /\ dnsCalls' = Append(dnsCalls, [op |-> "add", domain |-> run.domain,
                                             value |-> authHash, ok |-> ok])
            /\ pc' = AfterAdd(ok)
            /\ run' = [run EXCEPT !.authHash = authHash,
                                  !.deferred = (AfterAdd(ok) = "wait")]
    /\ UNCHANGED <<c, opts, srvNonce, srvOrder, ctxDone, runs, ret, reqs, refused,
                   stored, kidFrom, kidLog>>
    /\ UNCHANGED aux

\* <-time.After(1 * time.Minute): the context is not consulted.
StepWait ==
    /\ pc = "wait"
    /\ pc' = "challengeReady"
    /\ UNCHANGED <<c, opts, srvNonce, srvOrder, ctxDone, run, runs, ret, reqs,
                   refused, dnsCalls, stored, kidFrom, kidLog>>
    /\ UNCHANGED aux

\* The caller cancels the context while FetchOrRenewCert waits or polls.
CancelCtx ==
    /\ pc \in {"wait", "poll"}
    /\ ~ctxDone
    /\ ctxDone' = TRUE
    /\ UNCHANGED <<pc, c, opts, srvNonce, srvOrder, run, runs, ret, reqs,
                   refused, dnsCalls, stored, kidFrom, kidLog>>
    /\ UNCHANGED aux

\* err = c.ChallengeReady(ctx, challenge.URL)
StepChallengeReady(r) ==
    /\ pc = "challengeReady"
    /\ LET res == ChallengeReady(c, run.challenge.URL, r, Fresh) IN
        /\ c' = res.c
        /\ Record("ChallengeReady", "run", res)
        /\ IF res.err # "" THEN Return(run, res.err)
           ELSE pc' = "poll" /\ UNCHANGED <<run, ret>>
    /\ UNCHANGED <<opts, srvOrder, ctxDone, runs, dnsCalls, stored, kidLog>>
    /\ UNCHANGED aux

\* FetchOrRenewCert returning nil whatever PollForStatus returned.
PollResultNil(e) == ""

\* What FetchOrRenewCert returns for the error e of PollForStatus:
\* if err != nil { return err }; return nil.
PollResult(e) == e

\* PollForStatus(ctx, domain), one iteration: give up when the context is done
\* or the attempts are used up, else POST-as-GET the order and act on its status.
StepPoll(r, s) ==
    /\ pc = "poll"
    /\ IF ctxDone \/ run.polls >= MaxPolls
       THEN /\ Return(run, PollResult(IF ctxDone THEN "Canceled" ELSE "Timeout"))
            /\ UNCHANGED <<c, srvNonce, srvOrder, reqs, refused, kidFrom>>
       ELSE LET res == makeRequest(c, c.OrderURL, r, Fresh)
                err == OpErr(res, r, "ProblemError")
                r1  == [run EXCEPT !.polls = @ + 1,
                                   !.observed = IF err = "" THEN @ \cup {s} ELSE @]
            IN  /\ c' = res.c
                /\ Record("PollForStatus", "run", res)
                /\ srvOrder' = IF err = "" THEN s ELSE srvOrder
                /\ IF err # "" THEN Return(r1, PollResult(err))
                   ELSE IF s = "invalid" THEN Return(r1, PollResult("ValidationFailedError"))
                   ELSE /\ pc' = CASE s = "ready" -> "finalize"
                                   [] s = "valid" -> "download"
                                   [] OTHER -> "poll"
                        /\ run' = r1
                        /\ ret' = ret
    /\ s \in NextStatus(srvOrder)
    /\ UNCHANGED <<opts, ctxDone, runs, dnsCalls, stored, kidLog>>
    /\ UNCHANGED aux

\* PollForStatus, the order is ready: POST the CSR to the finalize URL.
StepFinalize(r) ==
    /\ pc = "finalize"
    /\ LET res == makeRequest(c, c.Finalize, r, Fresh)
           err == OpErr(res, r, "ProblemError")
       IN  /\ c' = res.c
           /\ Record("Finalize", "run", res)
           /\ IF err # ""
              THEN Return(run, PollResult(err)) /\ UNCHANGED srvOrder
              ELSE /\ pc' = "poll"
                   /\ run' = [run EXCEPT !.finalized = TRUE]
                   /\ srvOrder' = "processing"
                   /\ ret' = ret
    /\ UNCHANGED <<opts, ctxDone, runs, dnsCalls, stored, kidLog>>
    /\ UNCHANGED aux

\* PollForStatus, the order is valid: download the certificate and hand it,
\* with the certificate key, to the store collaborator.
StepDownload(r, storeOK) ==
    /\ pc = "download"
    /\ LET res == makeRequest(c, CertURL, r, Fresh)
           err == OpErr(res, r, "ProblemError")
       IN  /\ c' = res.c
           /\ Record("Download", "run", res)
           /\ IF err # ""
              THEN Return(run, PollResult(err)) /\ UNCHANGED stored
              ELSE /\ stored' = Append(stored, [keyPEM |-> <<"certKey", run.domain>>,
                                                 certPEM |-> <<"cert", run.domain>>,
                                                 domain |-> run.domain, ok |-> storeOK,
                                                 order |-> srvOrder])
                   /\ Return(run, PollResult(IF storeOK THEN "" ELSE "StoreError"))
    /\ UNCHANGED <<opts, srvOrder, ctxDone, runs, dnsCalls, kidLog>>
    /\ UNCHANGED aux

\* The deferred call made with the challenge token instead of authHash.
RemoveCallToken(r1) ==
    [op |-> "remove", domain |-> r1.domain, value |-> <<r1.challenge.Token>>]

\* c.DNS.RemoveTextRecord(domain, authHash), with the values the closure captured.
RemoveCall(r1) ==
    [op |-> "remove", domain |-> r1.domain, value |-> r1.authHash]

\* The deferred function of FetchOrRenewCert: RemoveTextRecord, log.Fatal when
\* it fails; then the caller sees the value the return statement computed.
DeferredRemove(ok) ==
    /\ pc = "defer"
    /\ dnsCalls' = Append(dnsCalls, [op |-> RemoveCall(run).op,
                                     domain |-> RemoveCall(run).domain,
                                     value |-> RemoveCall(run).value, ok |-> ok])
    /\ IF ok
       THEN pc' = "idle" /\ ret' = IF run.err = "" THEN "nil" ELSE "err"
       ELSE pc' = "exited" /\ ret' = ret
    /\ UNCHANGED <<c, opts, srvNonce, srvOrder, ctxDone, run, runs, reqs, refused,
                   stored, kidFrom, kidLog>>
    /\ UNCHANGED aux

\* A caller invokes the exported CertApply on the Client outside FetchOrRenewCert
\* (as the first driver did, right after NewClient).
DirectCertApply(r) ==
    /\ pc = "idle"
    /\ Directs < MaxDirect
    /\ LET res == CertApply(c, r, Fresh) IN
        /\ c' = res.c
        /\ Record("CertApply", "direct", res)
        /\ srvOrder' = IF res.err = "" THEN "pending" ELSE srvOrder
    /\ UNCHANGED <<pc, opts, ctxDone, run, runs, ret, dnsCalls, stored, kidLog>>
    /\ UNCHANGED aux

Next ==
    \/ \E k \in AccountKeys, dirOK \in BOOLEAN : NewClient(k, dirOK)
    \/ \E d \in Domains, nonceOK \in BOOLEAN : FetchOrRenewCert(d, nonceOK)
    \/ \E r \in Responses : StepNewAccount(r)
    \/ \E r \in Responses : StepCertApply(r)
    \/ \E r \in Responses, offer \in Offers : StepFetchChallenges(r, offer)
    \/ \E ok \in BOOLEAN : StepAddTextRecord(ok)
    \/ StepWait
    \/ CancelCtx
    \/ \E r \in Responses : StepChallengeReady(r)
    \/ \E r \in Responses, s \in {"pending", "ready", "processing", "valid", "invalid"} :
          StepPoll(r, s)
    \/ \E r \in Responses : StepFinalize(r)
    \/ \E r \in Responses, storeOK \in BOOLEAN : StepDownload(r, storeOK)
    \/ \E ok \in BOOLEAN : DeferredRemove(ok)
    \/ \E r \in Responses : DirectCertApply(r)

Spec == Init /\ [][Next]_vars

\* ------------------------------------------- two callers of one Client

\* The variables of the FetchOrRenewCert flow that the specifications below
\* leave as they start.
flow == <<pc, opts, srvOrder, ctxDone, run, runs, ret, reqs, refused, dnsCalls,
          stored, kidFrom, kidLog>>

FlowAtRest ==
    /\ opts = [AccountKey |-> Nil]
    /\ srvNonce = 0
    /\ srvOrder = "none"
    /\ ctxDone = FALSE
    /\ run = ZeroRun
    /\ runs = 0
    /\ ret = "none"
    /\ reqs = <<>>
    /\ refused = <<>>
    /\ dnsCalls = <<>>
    /\ stored = <<>>
    /\ kidFrom = ""
    /\ kidLog = <<>>

\* The goroutines that call FetchOrRenewCert on the same Client, and how many
\* signed operations of the call each one is followed through.
Goroutines == {1, 2}
MaxGoOps == 2

\* A nonce read while another goroutine was storing c.Nonce: neither the old
\* string nor the new one.
TornNonce == <<"torn">>

\* The k-th signed operation of FetchOrRenewCert and the URL it posts to:
\* newAccount, CertApply, FetchChallenges.
GoOp(k) == CASE k = 1 -> "newAccount" [] k = 2 -> "CertApply" [] OTHER -> "FetchChallenges"
GoURL(cl, k) ==
    CASE k = 1 -> cl.Directory.NewAccount [] k = 2 -> cl.Directory.NewOrder [] OTHER -> AuthzURL

NoToken == [err |-> "none", nonce |-> NoNonce, url |-> "", kid |-> ""]

\* Two goroutines were handed the Client that NewClient returned.
InitConc ==
    /\ pc = "conc"
    /\ c = [ZeroClient EXCEPT !.Key = "k1", !.Directory = Directory]
    /\ FlowAtRest
    /\ g = [t \in Goroutines |-> [pc |-> "start", k |-> 1, token |-> NoToken]]
    /\ asm = <<>>
    /\ calls = <<>>
    /\ zone = {}

\* Goroutine t, FetchOrRenewCert up to c.Nonce = nonce.
GoGetNonce(t, nonceOK) ==
    /\ pc = "conc"
    /\ g[t].pc = "start"
    /\ IF nonceOK
       THEN /\ c' = [c EXCEPT !.Nonce = Fresh]
            /\ srvNonce' = srvNonce + 1
            /\ g' = [g EXCEPT ![t].pc = "sign"]
       ELSE /\ g' = [g EXCEPT ![t].pc = "done"]
            /\ UNCHANGED <<c, srvNonce>>
    /\ UNCHANGED <<flow, zone, asm, calls>>

\* Goroutine t, makeRequest up to http.DefaultClient.Do: the envelope is built
\* from the c.Nonce and c.KID read now, and the request is in flight.  No lock
\* is taken; torn is a read of c.Nonce that races with the store another
\* goroutine's makeRequest makes when its response arrives.
GoSend(t, torn) ==
    /\ pc = "conc"
    /\ g[t].pc = "sign"
    /\ torn => \E u \in Goroutines \ {t} : g[u].pc = "inflight"
    /\ LET cl == IF torn THEN [c EXCEPT !.Nonce = TornNonce] ELSE c
           token == JWSEncodeJSON(cl, GoURL(c, g[t].k))
       IN  g' = [g EXCEPT ![t].pc = IF token.err # "" THEN "done" ELSE "inflight",
                          ![t].token = token]
    /\ UNCHANGED <<c, srvNonce, flow, zone, asm, calls>>

\* Goroutine t, makeRequest from the return of Do: c.Nonce and c.KID are
\* stored from the response; then the next signed operation, or the return.
GoReceive(t, r) ==
    /\ pc = "conc"
    /\ g[t].pc = "inflight"
    /\ IF r.fail
       THEN UNCHANGED <<c, srvNonce>>
       ELSE /\ c' = [c EXCEPT !.Nonce = IF r.nonce THEN Fresh ELSE NoNonce,
                              !.KID = IF c.KID = "" THEN Location(g[t].token.url, r)
                                      ELSE c.KID]
            /\ srvNonce' = IF r.nonce THEN srvNonce + 1 ELSE srvNonce
    /\ g' = [g EXCEPT ![t].pc = IF r.fail \/ (g[t].k > 1 /\ ~r.ok) \/ g[t].k >= MaxGoOps
                                THEN "done" ELSE "sign",
                      ![t].k = IF r.fail \/ (g[t].k > 1 /\ ~r.ok) \/ g[t].k >= MaxGoOps
                               THEN @ ELSE @ + 1]
    /\ UNCHANGED <<flow, zone, asm, calls>>

NextConc ==
    \/ \E t \in Goroutines, nonceOK \in BOOLEAN : GoGetNonce(t, nonceOK)
    \/ \E t \in Goroutines, torn \in BOOLEAN : GoSend(t, torn)
    \/ \E t \in Goroutines, r \in Responses : GoReceive(t, r)

SpecConc == InitConc /\ [][NextConc]_vars

\* ------------------------------------------------ AcmeAuthHash by itself

MaxHashCalls == 2
HashKeys == {"k1", GeneratedKey}
HashTokens == {Token, "tok2"}

\* The session states a Client with account key key can be in: with or without
\* a nonce, a Key ID, a Directory, an order.
SessionStates(key) ==
    {[Nonce |-> n, KID |-> k, Key |-> key, Directory |-> d, OrderURL |-> o[1],
      Finalize |-> o[2]] :
        n \in {NoNonce, <<0, 1>>}, k \in {"", AcctURL}, d \in {ZeroDirectory, Directory},
        o \in {<<"", "">>, <<OrderLocation, FinalizeURL>>}}

InitHash ==
    /\ pc = "hash"
    /\ c \in UNION {SessionStates(key) : key \in HashKeys}
    /\ FlowAtRest
    /\ g = <<>>
    /\ asm = <<>>
    /\ calls = <<>>
    /\ zone = {}

\* c.AcmeAuthHash(token) called on the Client as it is: no field is assigned.
CallAcmeAuthHash(token) ==
    /\ pc = "hash"
    /\ Len(calls) < MaxHashCalls
    /\ c' = c
    /\ calls' = Append(calls, [op |-> "AcmeAuthHash", key |-> c.Key, token |-> token,
                               value |-> AcmeAuthHash(c.Key, token),
                               nonce |-> c.Nonce, kid |-> c.KID,
                               order |-> c.OrderURL, changed |-> c' # c])
    /\ UNCHANGED <<srvNonce, flow, zone, g, asm>>

\* Between two calls the session moves on: the nonce, the Key ID, the Directory
\* and the order change, the account key stays.
SessionMoves ==
    /\ pc = "hash"
    /\ Len(calls) < MaxHashCalls
    /\ c' \in SessionStates(c.Key) \ {c}
    /\ UNCHANGED <<srvNonce, flow, zone, g, asm, calls>>

NextHash ==
    \/ \E token \in HashTokens : CallAcmeAuthHash(token)
    \/ SessionMoves

SpecHash == InitHash /\ [][NextHash]_vars

\* ------------------------------------------- the ASMCertStore by itself

MaxStoreCalls == 2

\* Domains as their labels, without and with a wildcard label.
StoreDomains == {<<"example", "org">>, <<"*", "example", "org">>}
Versions == {"v1", "v2"}
\* No secret of that name.
Absent == [type |-> "absent", value |-> <<>>]

\* strings.Replace(domain, "*", "_", 1): the first "*" becomes "_".
RECURSIVE ReplaceStar(_)
ReplaceStar(labels) ==
    IF labels = <<>> THEN <<>>
    ELSE IF Head(labels) = "*" THEN <<"_">> \o Tail(labels)
    ELSE <<Head(labels)>> \o ReplaceStar(Tail(labels))

\* fmt.Sprintf("ssl_%s.key", domain) and fmt.Sprintf("ssl_%s.crt", domain).
SecretName(domain, secretType) ==
    <<"ssl_", ReplaceStar(domain), IF secretType = "key" THEN ".key" ELSE ".crt">>

SecretNames == {SecretName(d, t) : d \in StoreDomains, t \in {"key", "cert"}}

\* json.Marshal(Secret{Type: "opaque", Value: pem})
SecretJSON(pem) == [type |-> "opaque", value |-> pem]

\* The Secrets Manager: UpdateSecret changes a secret that exists, CreateSecret
\* makes one that does not; either fails when the service does (up = FALSE).
UpdateSecret(secrets, name, value, up) ==
    IF ~up THEN [asm |-> secrets, err |-> "InternalServiceError"]
    ELSE IF secrets[name] = Absent
    THEN [asm |-> secrets, err |-> "ResourceNotFoundException"]
    ELSE [asm |-> [secrets EXCEPT ![name] = value], err |-> ""]

CreateSecret(secrets, name, value, up) ==
    IF ~up THEN [asm |-> secrets, err |-> "InternalServiceError"]
    ELSE IF secrets[name] # Absent
    THEN [asm |-> secrets, err |-> "ResourceExistsException"]
    ELSE [asm |-> [secrets EXCEPT ![name] = value], err |-> ""]

\* addSecret: UpdateSecret; on any error of it CreateSecret; the error returned
\* when that fails too is the one of UpdateSecret.  api is the history of the
\* calls made on the Secrets Manager.
addSecret(secrets, pem, domain, secretType, up1, up2) ==
    LET secretName == SecretName(domain, secretType)
        upd == UpdateSecret(secrets, secretName, SecretJSON(pem), up1)
        crt == CreateSecret(upd.asm, secretName, SecretJSON(pem), up2)
        u == [call |-> "UpdateSecret", name |-> secretName, err |-> upd.err]
        k == [call |-> "CreateSecret", name |-> secretName, err |-> crt.err]
    IN  IF upd.err = "" THEN [asm |-> upd.asm, err |-> "", api |-> <<u>>]
        ELSE IF crt.err # "" THEN [asm |-> crt.asm, err |-> upd.err, api |-> <<u, k>>]
        ELSE [asm |-> crt.asm, err |-> "", api |-> <<u, k>>]

\* Whether the Secrets Manager holds a key or a certificate for domain.
Held(domain) ==
    \/ asm[SecretName(domain, "key")] # Absent
    \/ asm[SecretName(domain, "cert")] # Absent

InitStore ==
    /\ pc = "store"
    /\ c = ZeroClient
    /\ FlowAtRest
    /\ g = <<>>
    /\ asm = [n \in SecretNames |-> Absent]
    /\ calls = <<>>
    /\ zone = {}

\* ASMCertStore.Store(keyPEM, certPEM, domain)
Store(keyPEM, certPEM, domain, up) ==
    /\ pc = "store"
    /\ Len(calls) < MaxStoreCalls
    /\ LET k == addSecret(asm, keyPEM, domain, "key", up[1], up[2])
           r == addSecret(k.asm, certPEM, domain, "cert", up[3], up[4])
           res == IF k.err # "" THEN k ELSE [r EXCEPT !.api = k.api \o r.api]
       IN  /\ asm' = res.asm
           /\ calls' = Append(calls, [op |-> "Store", domain |-> domain,
                                      keyPEM |-> keyPEM, certPEM |-> certPEM,
                                      err |-> IF res.err = "" THEN "nil" ELSE res.err,
                                      held |-> Held(domain), api |-> res.api])
    /\ UNCHANGED <<c, srvNonce, flow, zone, g>>

\* ASMCertStore.Retrieve(domain): return "i_am", "fake", nil
Retrieve(domain) ==
    /\ pc = "store"
    /\ Len(calls) < MaxStoreCalls
    /\ calls' = Append(calls, [op |-> "Retrieve", domain |-> domain,
                               keyPEM |-> "i_am", certPEM |-> "fake", err |-> "nil",
                               held |-> Held(domain), api |-> <<>>])
    /\ UNCHANGED <<c, srvNonce, flow, zone, g, asm>>

NextStore ==
    \/ \E v \in Versions, d \in StoreDomains, up \in [1..4 -> BOOLEAN] :
          Store(<<"key", v>>, <<"cert", v>>, d, up)
    \/ \E d \in StoreDomains : Retrieve(d)

SpecStore == InitStore /\ [][NextStore]_vars

\* ------------------------------------------------- the Route53 by itself

MaxDNSCalls == 2
TTL == 20

\* Hostnames as their labels: a plain one, a wildcard, and one with too few
\* labels to have a hosted zone.
DNSDomains == {<<"example", "org">>, <<"*", "example", "org">>, <<"localhost">>}
DNSTokens == {"hash1", "hash2"}

\* What ListHostedZonesByName answers: an error, no zone, one zone.
Lookups == {"error", "none", "one"}

\* splitHostname: the labels other than "" and "*"; the last two are the domain.
splitHostname(hostname) ==
    LET h == SelectSeq(hostname, LAMBDA t : t # "" /\ t # "*") IN
    IF Len(h) < 2 THEN [host |-> <<>>, domain |-> <<>>, err |-> "great big TLD"]
    ELSE [host |-> SubSeq(h, 1, Len(h) - 2), domain |-> SubSeq(h, Len(h) - 1, Len(h)),
          err |-> ""]

\* findHostedZoneID: the id of the one hosted zone found for the domain.
findHostedZoneID(hostname, lookup) ==
    LET sp == splitHostname(hostname) IN
    IF sp.err # "" THEN [id |-> "", err |-> sp.err]
    ELSE IF lookup = "error" THEN [id |-> "", err |-> "ListHostedZonesByName"]
    ELSE IF lookup # "one" THEN [id |-> "", err |-> "Failed to find HostedZoneID"]
    ELSE [id |-> <<"zone", sp.domain>>, err |-> ""]

\* createChangeRecordSetInput that keeps the wildcard label of a DELETE.
createChangeRecordSetInputKeepStar(hostedZoneID, domain, token, action) ==
    LET d == IF action # "DELETE" /\ Len(domain) >= 2 /\ domain[1] = "*"
             THEN Tail(domain) ELSE domain
    IN  [Action |-> action, HostedZoneId |-> hostedZoneID,
         Name |-> <<"_acme-challenge">> \o d, Value |-> <<"quoted", token>>,
         TTL |-> TTL, Type |-> "TXT"]

\* createChangeRecordSetInput: a leading "*." is stripped from the domain; the
\* name is "_acme-challenge." and the domain, the value the token in quotes.
createChangeRecordSetInput(hostedZoneID, domain, token, action) ==
    LET d == IF Len(domain) >= 2 /\ domain[1] = "*" THEN Tail(domain) ELSE domain
    IN  [Action |-> action, HostedZoneId |-> hostedZoneID,
         Name |-> <<"_acme-challenge">> \o d, Value |-> <<"quoted", token>>,
         TTL |-> TTL, Type |-> "TXT"]

\* The record set of a change, as the hosted zone keeps it.
RecordSet(input) ==
    [HostedZoneId |-> input.HostedZoneId, Name |-> input.Name, Value |-> input.Value,
     TTL |-> input.TTL, Type |-> input.Type]

\* Route 53's ChangeResourceRecordSets: UPSERT replaces the record set of that
\* name and type, DELETE removes the record set that matches in every field and
\* fails when there is none; either fails when the service does.
ChangeResourceRecordSets(records, input, up) ==
    LET rs == RecordSet(input)
        same == {x \in records : /\ x.HostedZoneId = rs.HostedZoneId
                                 /\ x.Name = rs.Name /\ x.Type = rs.Type}
    IN  IF ~up THEN [zone |-> records, err |-> "ServiceUnavailable"]
        ELSE IF input.Action = "UPSERT"
        THEN [zone |-> (records \ same) \cup {rs}, err |-> ""]
        ELSE IF rs \in records THEN [zone |-> records \ {rs}, err |-> ""]
        ELSE [zone |-> records, err |-> "InvalidChangeBatch"]

NoInput ==
    [Action |-> "", HostedZoneId |-> "", Name |-> <<>>, Value |-> <<>>, TTL |-> 0,
     Type |-> ""]

\* The steps AddTextRecord and RemoveTextRecord both take, with their action:
\* findHostedZoneID, createChangeRecordSetInput, ChangeResourceRecordSets, each
\* error returned.
ChangeTextRecord(records, domain, token, action, lookup, up) ==
    LET z == findHostedZoneID(domain, lookup)
        input == createChangeRecordSetInput(z.id, domain, token, action)
        res == ChangeResourceRecordSets(records, input, up)
    IN  IF z.err # "" THEN [zone |-> records, input |-> NoInput, err |-> z.err]
        ELSE [zone |-> res.zone, input |-> input,
              err |-> IF res.err = "" THEN "nil" ELSE res.err]

\* Route53.AddTextRecord(domain, token)
AddTextRecord(domain, token, lookup, up) ==
    /\ pc = "dns"
    /\ Len(calls) < MaxDNSCalls
    /\ LET res == ChangeTextRecord(zone, domain, token, "UPSERT", lookup, up) IN
        /\ zone' = res.zone
        /\ calls' = Append(calls, [op |-> "AddTextRecord", domain |-> domain,
                                   token |-> token, input |-> res.input, err |-> res.err])
    /\ UNCHANGED <<c, srvNonce, flow, g, asm>>

\* Route53.RemoveTextRecord(domain, token)
RemoveTextRecord(domain, token, lookup, up) ==
    /\ pc = "dns"
    /\ Len(calls) < MaxDNSCalls
    /\ LET res == ChangeTextRecord(zone, domain, token, "DELETE", lookup, up) IN
        /\ zone' = res.zone
        /\ calls' = Append(calls, [op |-> "RemoveTextRecord", domain |-> domain,
                                   token |-> token, input |-> res.input, err |-> res.err])
    /\ UNCHANGED <<c, srvNonce, flow, g, asm>>

InitDNS ==
    /\ pc = "dns"
    /\ c = ZeroClient
    /\ FlowAtRest
    /\ g = <<>>
    /\ asm = <<>>
    /\ calls = <<>>
    /\ zone = {}

NextDNS ==
    \/ \E d \in DNSDomains, t \in DNSTokens, l \in Lookups, up \in BOOLEAN :
          AddTextRecord(d, t, l, up)
    \/ \E d \in DNSDomains, t \in DNSTokens, l \in Lookups, up \in BOOLEAN :
          RemoveTextRecord(d, t, l, up)

SpecDNS == InitDNS /\ [][NextDNS]_vars

\* ---------------------------------------------------------------- claims

\* The successful AddTextRecord calls and the RemoveTextRecord calls of this call.
Adds == {i \in DOMAIN dnsCalls : dnsCalls[i].op = "add" /\ dnsCalls[i].ok}
Removes == {i \in DOMAIN dnsCalls : dnsCalls[i].op = "remove"}
RemovesOf(i) ==
    {j \in Removes : /\ j > i
                     /\ dnsCalls[j].domain = dnsCalls[i].domain
                     /\ dnsCalls[j].value = dnsCalls[i].value}

\* The call of FetchOrRenewCert has ended: it returned, or the process exited.
Ended == pc \in {"idle", "exited"} /\ runs > 0
Returned == pc = "idle" /\ runs > 0

\* C1: no nonce value is carried by two different requests that FetchOrRenewCert
\* issues through the Client, a request that failed at the transport level
\* included.
C1_NoNonceReuse ==
    \A i, j \in DOMAIN reqs :
        (i # j /\ reqs[i].via = "run" /\ reqs[j].via = "run")
            => reqs[i].nonce # reqs[j].nonce

\* C2: when the call has ended, every AddTextRecord call after which
\* FetchOrRenewCert went on (ChallengeReady or PollForStatus succeeding or
\* failing, the context canceled during the wait or the poll) has been followed
\* by exactly one RemoveTextRecord call with the same domain and the same value;
\* and at no time by more than one.
C2_AddThenOneRemove ==
    /\ \A i \in Adds : Cardinality(RemovesOf(i)) <= 1
    /\ \A j \in Removes : \E i \in Adds : j \in RemovesOf(i)
    /\ Ended => \A i \in Adds : Cardinality(RemovesOf(i)) = 1

\* C2 witness: a call that ended with an error after the context was canceled,
\* its add followed by its remove.
C2_Witness ==
    /\ Returned /\ ret = "err" /\ ctxDone
    /\ \E i \in Adds : Cardinality(RemovesOf(i)) = 1

\* C3: when the authorization offers no dns-01 challenge, FetchOrRenewCert
\* calls neither AddTextRecord nor RemoveTextRecord, sends no ChallengeReady
\* request, and returns an error.
C3_NoDns01NoDnsCalls ==
    run.offered = "other" =>
        /\ dnsCalls = <<>>
        /\ \A i \in DOMAIN reqs : reqs[i].op # "ChallengeReady"
        /\ Returned => ret = "err"

\* C4: FetchOrRenewCert returns nil only if the order was observed in the
\* status valid during the call.
C4_NilOnlyAfterValid ==
    (Returned /\ ret = "nil") => "valid" \in run.observed

\* C4 witness: a call that returned nil, having observed ready and then valid.
C4_Witness ==
    Returned /\ ret = "nil" /\ {"ready", "valid"} \subseteq run.observed

\* C5: when FetchOrRenewCert returns nil for domain d, Store was called during
\* the call with the certificate issued for d, after the order became valid.
C5_StoredOnSuccess ==
    (Returned /\ ret = "nil") =>
        \E k \in DOMAIN stored :
            /\ stored[k].domain = run.domain
            /\ stored[k].certPEM = <<"cert", run.domain>>
            /\ stored[k].order = "valid"
            /\ stored[k].ok

\* C5 witness: a call that returned nil with one Store call made.
C5_Witness ==
    Returned /\ ret = "nil" /\ Len(stored) = 1 /\ run.domain = "example.org"

C7_KidFromNewAccount ==
    c.KID # "" => (kidFrom = "newAccount" /\ c.KID = AcctURL)

C9_GeneratedKeyInClient ==
    (pc # "new" /\ c.Directory = Directory /\ opts.AccountKey = GeneratedKey)
        => c.Key = GeneratedKey

\* C10: no request is sent with an empty nonce: a signed operation invoked
\* while the Client holds no nonce fails before an envelope reaches the transport.
C10_NoEmptyNonceSent ==
    /\ \A i \in DOMAIN reqs : reqs[i].nonce # NoNonce
    /\ \A i \in DOMAIN refused : refused[i].err # ""

\* C10 witness: inside FetchOrRenewCert, after a response without Replay-Nonce
\* cleared the nonce, a signed operation was refused and sent nothing.
C10_Witness ==
    \E i \in DOMAIN refused :
        /\ refused[i].err = "NoNonceError"
        /\ refused[i].nonce = NoNonce
        /\ refused[i].via = "run"
        /\ refused[i].op \in {"CertApply", "FetchChallenges", "ChallengeReady",
                              "PollForStatus"}

\* The requests of operation op that this call of FetchOrRenewCert handed to the
\* transport, the ones it was refused, and the AddTextRecord calls that failed.
RunReqs(op) == {i \in DOMAIN reqs : reqs[i].via = "run" /\ reqs[i].op = op}
RunRefused(op) == {i \in DOMAIN refused : refused[i].via = "run" /\ refused[i].op = op}
FailedAdds == {i \in DOMAIN dnsCalls : dnsCalls[i].op = "add" /\ ~dnsCalls[i].ok}
AfterAddOps == {"ChallengeReady", "PollForStatus", "Finalize", "Download"}

\* C11: ChallengeReady is called, and its request sent, only after AddTextRecord
\* returned without error for the domain of this call, earlier in the same call;
\* never before the add and never after an add that failed.
C11_ReadyOnlyAfterAdd ==
    (pc = "challengeReady" \/ RunReqs("ChallengeReady") # {}
        \/ RunRefused("ChallengeReady") # {}) =>
        /\ \E i \in Adds : /\ dnsCalls[i].domain = run.domain
                           /\ dnsCalls[i].value = run.authHash
        /\ FailedAdds = {}

\* C11 witness: the ChallengeReady request went to the challenge URL, the TXT
\* record of the domain having been added.
C11_Witness ==
    /\ \E k \in RunReqs("ChallengeReady") : reqs[k].url = ChallengeURL
    /\ \E i \in Adds : dnsCalls[i].domain = "example.org"

\* C12: once AddTextRecord has returned an error the attempt is over and no
\* request follows: no ChallengeReady, no poll of the order, no finalize, no
\* download is sent or even tried.
C12_FailedAddEndsAttempt ==
    FailedAdds # {} =>
        /\ pc = "exited"
        /\ \A op \in AfterAddOps : RunReqs(op) = {} /\ RunRefused(op) = {}

\* C12 witness: the add failed after the new-account, new-order and authorization
\* requests had been sent.
C12_Witness ==
    /\ FailedAdds # {}
    /\ RunReqs("FetchChallenges") # {}
    /\ Len(dnsCalls) = 1

\* C13: when the attempt has ended, every AddTextRecord call that returned an
\* error has been followed by a RemoveTextRecord call for the same domain and
\* the same value.
C13_RemoveAfterFailedAdd ==
    Ended => \A i \in FailedAdds :
                \E j \in Removes : /\ j > i
                                   /\ dnsCalls[j].domain = dnsCalls[i].domain
                                   /\ dnsCalls[j].value = dnsCalls[i].value

\* The initial nonce could not be obtained, or the account registration failed:
\* refused before sending, failed in the transport, or answered with a non-2xx
\* problem response.
AccountFailed ==
    /\ run.via = "run"
    /\ \/ run.acct \in {"refused", "transport", "problem"}
       \/ run.acct = "none" /\ run.err = "TransportError"

\* C14: when the initial nonce or the account registration failed,
\* FetchOrRenewCert sends no new-order request, calls the DNS collaborator not
\* at all, and what it returns is an error.
C14_AccountFailureStopsCall ==
    AccountFailed =>
        /\ RunReqs("CertApply") = {} /\ RunRefused("CertApply") = {}
        /\ dnsCalls = <<>>
        /\ Returned => ret = "err"

\* CertApply, ChallengeReady or PollForStatus returned an error to FetchOrRenewCert.
StepFailed ==
    /\ run.err # ""
    /\ RunReqs("CertApply") \cup RunRefused("CertApply") # {}

\* C15: when CertApply, ChallengeReady or PollForStatus failed for a domain, the
\* attempt ends with every added record removed and with the error returned to
\* the driver, whose loop goes on to the remaining domains.
C15_FailureEndsOnlyThatDomain ==
    (StepFailed /\ Ended) =>
        /\ \A i \in Adds : Cardinality(RemovesOf(i)) = 1
        /\ pc = "idle" /\ ret = "err"

\* C16: FetchOrRenewCert sends no signed request after its context was canceled;
\* it then removes the record it added and returns an error.
C16_NoRequestAfterCancel ==
    /\ \A i \in DOMAIN reqs : reqs[i].via = "run" => ~reqs[i].canceled
    /\ (Returned /\ ctxDone) => ret = "err"
    /\ (Ended /\ ctxDone) => \A i \in Adds : RemovesOf(i) # {}

\* The URLs the Client has from the server: the entries of the Directory and
\* the URLs the server's responses carry.
ServerURLs ==
    {Directory.NewNonce, Directory.NewAccount, Directory.NewOrder,
     AcctURL, OrderLocation, AuthzURL, FinalizeURL, CertURL, ChallengeURL, "chall/http"}

\* C18: every signed request of FetchOrRenewCert is built for a URL the server
\* gave; none, and no ChallengeReady in particular, for an empty URL.
C18_RequestsToServerURLs ==
    \A i \in DOMAIN reqs : reqs[i].via = "run" => reqs[i].url \in ServerURLs

\* The goroutines whose request is in flight, and the ones that have built an
\* envelope.
InFlight == {t \in DOMAIN g : g[t].pc = "inflight"}
Signed == {t \in DOMAIN g : g[t].token.err = ""}

\* C17: at most one signed request of the Client is in flight, and no two
\* goroutines have built their requests from the same held nonce.
C17_OneRequestInFlight ==
    /\ Cardinality(InFlight) <= 1
    /\ \A t, u \in Signed : t # u => g[t].token.nonce # g[u].token.nonce

\* The calls of AcmeAuthHash made so far.
HashCalls == {i \in DOMAIN calls : calls[i].op = "AcmeAuthHash"}

C20_RetrieveNothingStored ==
    \A i \in DOMAIN calls :
        (calls[i].op = "Retrieve" /\ ~calls[i].held) =>
            /\ calls[i].keyPEM = ""
            /\ calls[i].certPEM = ""
            /\ calls[i].err = "nil"

\* C21: by the time FetchOrRenewCert creates the order, it has called Retrieve
\* of the store collaborator for the domain of the call.
C21_RetrieveBeforeOrder ==
    (RunReqs("CertApply") \cup RunRefused("CertApply") # {}) =>
        \E i \in DOMAIN calls : calls[i].op = "Retrieve" /\ calls[i].domain = run.domain

\* C22: once a makeRequest of the Client has completed, the Client holds a
\* nonce: not the empty one, and not one that a request has carried already.
C22_OneUnusedNonceHeld ==
    reqs # <<>> =>
        /\ c.Nonce # NoNonce
        /\ \A i \in DOMAIN reqs : reqs[i].nonce # c.Nonce

\* C23: when FetchChallenges returned an error, FetchOrRenewCert calls no
\* AddTextRecord, neither calls nor sends ChallengeReady, and what it returns
\* is an error.
C23_FetchChallengesErrorReturned ==
    run.offered = "error" =>
        /\ \A i \in DOMAIN dnsCalls : dnsCalls[i].op # "add"
        /\ RunReqs("ChallengeReady") = {} /\ RunRefused("ChallengeReady") = {}
        /\ pc \notin {"addText", "wait", "challengeReady"}
        /\ Returned => ret = "err"

\* A step of this call was answered with a transport error or with a problem
\* response: new-account, or the authorization fetch.
StepAnsweredError ==
    run.acct \in {"transport", "problem"} \/ run.offered = "error"

\* C24: within one call each of new-account, new-order, authorization fetch and
\* challenge-ready sends at most one request, and once a step has met a
\* transport error or a problem response the call is on its error return: the
\* step is not sent again and no later step is taken.
C24_NoRetryErrorSurfaced ==
    /\ \A op \in {"newAccount", "CertApply", "FetchChallenges", "ChallengeReady"} :
          Cardinality(RunReqs(op)) <= 1
    /\ StepAnsweredError => (run.err # "" /\ pc \in {"idle", "defer", "exited"})

\* The Store calls made so far, and the names of the two secrets of a domain.
StoreCalls == {i \in DOMAIN calls : calls[i].op = "Store"}
KeyName(i) == SecretName(calls[i].domain, "key")
CertName(i) == SecretName(calls[i].domain, "cert")

\* C25: in every Store call, CreateSecret was called only right after an
\* UpdateSecret of the same secret that failed with ResourceNotFoundException;
\* an UpdateSecret that failed otherwise made Store return an error; the key
\* secret was written before the certificate secret, and the certificate
\* secret was not touched when the key secret could not be written.
C25_CreateOnlyWhenNotFound ==
    \A i \in StoreCalls :
        LET api == calls[i].api IN
        /\ \A k \in DOMAIN api :
              api[k].call = "CreateSecret" =>
                  /\ k > 1
                  /\ api[k - 1].call = "UpdateSecret"
                  /\ api[k - 1].name = api[k].name
                  /\ api[k - 1].err = "ResourceNotFoundException"
        /\ \A k \in DOMAIN api :
              (api[k].call = "UpdateSecret"
                  /\ api[k].err \notin {"", "ResourceNotFoundException"})
                      => calls[i].err # "nil"
        /\ \A k, m \in DOMAIN api :
              (api[k].name = KeyName(i) /\ api[m].name = CertName(i)) => k < m
        /\ (\E k \in DOMAIN api : api[k].name = CertName(i))
              => \E k \in DOMAIN api : api[k].name = KeyName(i) /\ api[k].err = ""

\* The AddTextRecord and RemoveTextRecord calls that built a change.
BuiltAdds == {i \in DOMAIN calls : calls[i].op = "AddTextRecord" /\ calls[i].input # NoInput}
BuiltRemoves ==
    {i \in DOMAIN calls : calls[i].op = "RemoveTextRecord" /\ calls[i].input # NoInput}

\* The domain without a leading wildcard label.
Unstarred(domain) == IF Head(domain) = "*" THEN Tail(domain) ELSE domain

\* C26: an AddTextRecord call and a RemoveTextRecord call for the same domain
\* and token build the same record set: the name "_acme-challenge." followed by
\* the domain without its leading "*.", the quoted token, type TXT, the same
\* TTL; the action is UPSERT for the add and DELETE for the remove; and a remove
\* that follows the successful add of its record finds that record and takes it
\* out of the zone.
C26_AddRemoveSameRecord ==
    /\ \A i \in BuiltAdds, j \in BuiltRemoves :
          (calls[i].domain = calls[j].domain /\ calls[i].token = calls[j].token) =>
              /\ calls[i].input.Name = calls[j].input.Name
              /\ calls[i].input.Value = calls[j].input.Value
              /\ calls[i].input.Type = calls[j].input.Type
              /\ calls[i].input.TTL = calls[j].input.TTL
    /\ \A i \in BuiltAdds :
          /\ calls[i].input.Action = "UPSERT"
          /\ calls[i].input.Name = <<"_acme-challenge">> \o Unstarred(calls[i].domain)
          /\ calls[i].input.Value = <<"quoted", calls[i].token>>
          /\ calls[i].input.Type = "TXT"
    /\ \A j \in BuiltRemoves : calls[j].input.Action = "DELETE"
    /\ \A i \in BuiltAdds, j \in BuiltRemoves :
          (/\ j = i + 1 /\ calls[i].err = "nil"
           /\ calls[i].domain = calls[j].domain /\ calls[i].token = calls[j].token
           /\ calls[j].err # "ServiceUnavailable" /\ j = Len(calls)) =>
              /\ calls[j].err = "nil"
              /\ RecordSet(calls[i].input) \notin zone

\* C26 witness: the TXT record of a wildcard domain was added and then removed
\* with the same domain and token, and the zone is empty again.
C26_Witness ==
    /\ Len(calls) = 2
    /\ 1 \in BuiltAdds /\ 2 \in BuiltRemoves
    /\ calls[1].domain = <<"*", "example", "org">> /\ calls[2].domain = calls[1].domain
    /\ calls[1].token = calls[2].token
    /\ calls[1].err = "nil" /\ calls[2].err = "nil"
    /\ calls[1].input.Name = <<"_acme-challenge", "example", "org">>
    /\ zone = {}

====
